---- MODULE Spec2Model ----
(***************************************************************************)
(* A model of dns-rs: the DNS wire codec of src/message.rs, the            *)
(* fan-out / fan-in forwarding server of src/server.rs (DnsServer) and the *)
(* receive loop of src/main.rs.                                            *)
(*                                                                         *)
(* A byte is a number in 0..255.  A Rust String is modelled by the         *)
(* sequence of its UTF-8 bytes, a Vec<T> by a sequence, a HashMap by a     *)
(* function on the set of its keys.                                        *)
(***************************************************************************)
EXTENDS Integers, Sequences, FiniteSets, TLC

VARIABLES
    resolver,       \* DnsServer.resolver: "None" or the upstream address
    source_map,     \* DnsServer.source_map: id -> [cnt, addr]
    orig_messages,  \* DnsServer.orig_messages: id -> Message
    sent,           \* the datagrams handed to socket.send_to, in order
    crashed,        \* TRUE once a panic has unwound the process
    hist,           \* the calls of process so far: [m, source, had], had
                    \* the keys of source_map when the call began
    buf,            \* main's receive buffer
    received,       \* main: the datagrams recv_from has delivered so far
    main_pc,        \* main: "loop" while the receive loop runs, then "exit"
    pst             \* the state of one run of Message::parse

vars == <<resolver, source_map, orig_messages, sent, crashed, hist, buf,
          received, main_pc, pst>>

(***************************************************************************)
(* Integer helpers: the casts and shifts of the source.                    *)
(***************************************************************************)
Hi(x) == (x \div 256) % 256
Lo(x) == x % 256
AsU16(x) == x % 65536
Dot == 46
EmptyMap == [k \in {} |-> <<>>]

RECURSIVE Concat(_)
Concat(ss) == IF ss = <<>> THEN <<>> ELSE Head(ss) \o Concat(Tail(ss))

MapSeq(Op(_), s) == [i \in 1..Len(s) |-> Op(s[i])]

(***************************************************************************)
(* QType and ResourceClass: the enumerations and their numeric values.     *)
(***************************************************************************)
QTypeNames ==
    <<"A", "NS", "MD", "MF", "CNAME", "SOA", "MB", "MG",
      "MR", "NULL", "WKS", "PTR", "HINFO", "MINFO", "MX", "TXT">>
ResourceClassNames == <<"IN", "CS", "CH", "HS">>

QType_value(t) == CHOOSE i \in 1..Len(QTypeNames) : QTypeNames[i] = t
QType_from_value(v) ==
    IF v \in 1..Len(QTypeNames) THEN [ok |-> TRUE, val |-> QTypeNames[v]]
    ELSE [ok |-> FALSE, val |-> "bail"]
ResourceClass_value(c) ==
    CHOOSE i \in 1..Len(ResourceClassNames) : ResourceClassNames[i] = c
ResourceClass_from_value(v) ==
    IF v \in 1..Len(ResourceClassNames)
    THEN [ok |-> TRUE, val |-> ResourceClassNames[v]]
    ELSE [ok |-> FALSE, val |-> "bail"]

(***************************************************************************)
(* Encoding.                                                               *)
(***************************************************************************)
B(flag) == IF flag THEN 1 ELSE 0

\* Header::to_bytes.  The fields of a flag byte occupy disjoint bits, so the
\* bitwise or of the source is a sum; (x << 3) & 0b01111000 on a u8 keeps
\* the low four bits of x, (x << 4) & 0b01110000 the low three.
\* Mutant: opcode, z and rcode are shifted into place but not masked.
Header_to_bytes_NoMask(h) ==
    << Hi(h.id), Lo(h.id),
       (B(h.qr) * 128 + h.opcode * 8 + B(h.aa) * 4 + B(h.tc) * 2 + B(h.rd)) % 256,
       (B(h.ra) * 128 + h.z * 16 + h.rcode) % 256,
       Hi(h.qdcount), Lo(h.qdcount),
       Hi(h.ancount), Lo(h.ancount),
       Hi(h.nscount), Lo(h.nscount),
       Hi(h.arcount), Lo(h.arcount) >>

Header_to_bytes(h) ==
    << Hi(h.id), Lo(h.id),
       B(h.qr) * 128 + (h.opcode % 16) * 8 + B(h.aa) * 4 + B(h.tc) * 2 + B(h.rd),
       B(h.ra) * 128 + (h.z % 8) * 16 + (h.rcode % 16),
       Hi(h.qdcount), Lo(h.qdcount),
       Hi(h.ancount), Lo(h.ancount),
       Hi(h.nscount), Lo(h.nscount),
       Hi(h.arcount), Lo(h.arcount) >>

\* One turn of the loop "for label in &self.name": the length as a u8, then
\* the bytes of the label.
label_to_bytes(label) == <<Len(label) % 256>> \o label

Question_to_bytes(q) ==
    Concat(MapSeq(label_to_bytes, q.name)) \o <<0>>
        \o <<Hi(QType_value(q.tipe)), Lo(QType_value(q.tipe))>>
        \o <<Hi(ResourceClass_value(q.class)), Lo(ResourceClass_value(q.class))>>

Answer_to_bytes(a) ==
    Concat(MapSeq(label_to_bytes, a.name)) \o <<0>>
        \o <<Hi(QType_value(a.tipe)), Lo(QType_value(a.tipe))>>
        \o <<Hi(ResourceClass_value(a.class)), Lo(ResourceClass_value(a.class))>>
        \o <<(a.ttl \div 16777216) % 256, (a.ttl \div 65536) % 256,
             (a.ttl \div 256) % 256, a.ttl % 256>>
        \o <<Hi(a.rdlength), Lo(a.rdlength)>>
        \o a.rdata

Message_to_bytes(m) ==
    Header_to_bytes(m.header)
        \o Concat(MapSeq(Question_to_bytes, m.questions))
        \o Concat(MapSeq(Answer_to_bytes, m.answers))

(***************************************************************************)
(* Decoding.  Message::parse threads the rest of the input and             *)
(* parse_offset through Header::parse, Question::parse, Answer::parse and  *)
(* parse_label_seq.  A run is a record st:                                 *)
(*   bites         the whole input; pos bytes of it are consumed           *)
(*   parse_offset  the offset the source keeps beside the slice            *)
(*   header, questions, answers, label_offsets   the Message being built   *)
(*   name, name_map, lable_len   the locals of parse_label_seq             *)
(*   rec           "q" or "a": which record's name is being read           *)
(*   qleft, aleft  the turns left of the two for loops of Message::parse   *)
(*   pc            where the run is; err the nom error kind once failed:   *)
(*                 "Eof" (Err::Error from be_u8/be_u16/be_u32/take) or     *)
(*                 "Tag" (the Err::Failure built by the source)            *)
(***************************************************************************)
Remaining(st) == Len(st.bites) - st.pos
ByteAt(st, k) == st.bites[st.pos + k]
U16At(st, k) == ByteAt(st, k) * 256 + ByteAt(st, k + 1)
Fail(st, kind) == [st EXCEPT !.pc = "err", !.err = kind]

is_compressed_label(bite) == (bite \div 64) % 4 = 3

\* String::from_utf8_lossy on the bytes this model feeds it: an ASCII byte
\* is kept, a byte that can start no UTF-8 sequence (0xC0, 0xC1, 0xF5..0xFF)
\* becomes U+FFFD, whose UTF-8 form is EF BF BD.
RECURSIVE from_utf8_lossy(_)
from_utf8_lossy(bs) ==
    IF bs = <<>> THEN <<>>
    ELSE (IF Head(bs) < 128 THEN <<Head(bs)>> ELSE <<239, 191, 189>>)
             \o from_utf8_lossy(Tail(bs))

\* name.join(".")
RECURSIVE join(_)
join(name) ==
    IF name = <<>> THEN <<>>
    ELSE IF Len(name) = 1 THEN name[1]
    ELSE name[1] \o <<Dot>> \o join(Tail(name))

Header_parse(b) ==
    [ id      |-> b[1] * 256 + b[2],
      qr      |-> (b[3] \div 128) % 2 = 1,
      opcode  |-> (b[3] \div 8) % 16,
      aa      |-> (b[3] \div 4) % 2 = 1,
      tc      |-> (b[3] \div 2) % 2 = 1,
      rd      |-> b[3] % 2 = 1,
      ra      |-> (b[4] \div 128) % 2 = 1,
      z       |-> (b[4] \div 16) % 8,
      rcode   |-> b[4] % 16,
      qdcount |-> b[5] * 256 + b[6],
      ancount |-> b[7] * 256 + b[8],
      nscount |-> b[9] * 256 + b[10],
      arcount |-> b[11] * 256 + b[12] ]

HeaderLen == 12

NoHeader == Header_parse([i \in 1..HeaderLen |-> 0])

ParseInit(bites) ==
    [ bites |-> bites, pos |-> 0, parse_offset |-> 0,
      header |-> NoHeader, questions |-> <<>>, answers |-> <<>>,
      label_offsets |-> EmptyMap,
      name |-> <<>>, name_map |-> EmptyMap, lable_len |-> 0,
      rec |-> "q", qleft |-> 0, aleft |-> 0,
      pc |-> "header", err |-> "none" ]

\* The for loops of Message::parse: what runs after a record is complete.
NextRecord(st) ==
    IF st.qleft > 0 THEN [st EXCEPT !.pc = "name_start", !.rec = "q"]
    ELSE IF st.aleft > 0 THEN [st EXCEPT !.pc = "name_start", !.rec = "a"]
    ELSE [st EXCEPT !.pc = "done"]

\* Message::parse up to its first loop: Header::parse, parse_offset += 12.
StepHeader(st) ==
    IF Remaining(st) < HeaderLen THEN Fail(st, "Eof")
    ELSE LET h == Header_parse(st.bites)
         IN  NextRecord([st EXCEPT !.header = h, !.pos = HeaderLen,
                                  !.parse_offset = HeaderLen,
                                  !.qleft = h.qdcount, !.aleft = h.ancount])

\* parse_label_seq before its loop: fresh name and name_map, the first octet.
StepNameStart(st) ==
    IF Remaining(st) < 1 THEN Fail(st, "Eof")
    ELSE [st EXCEPT !.name = <<>>, !.name_map = EmptyMap,
                    !.lable_len = ByteAt(st, 1),
                    !.pos = @ + 1, !.parse_offset = @ + 1,
                    !.pc = "name_loop"]

\* parse_label_seq after its loop: name_map is copied into label_offsets and
\* the rest of Question::parse or Answer::parse follows.
FinishName(st) ==
    [st EXCEPT !.label_offsets = st.name_map @@ st.label_offsets,
               !.pc = IF st.rec = "q" THEN "q_tail" ELSE "a_tail"]

\* Mutant: a pointer is followed into the datagram, with no bound on the
\* hops, instead of being looked up in label_offsets.
StepNameLoop_Follow(st) ==
    IF is_compressed_label(st.lable_len)
    THEN IF Remaining(st) < 1 THEN Fail(st, "Eof")
         ELSE LET offset == (st.lable_len % 64) * 256 + ByteAt(st, 1)
              IN  IF offset < Len(st.bites)
                  THEN [st EXCEPT !.lable_len = st.bites[offset + 1],
                                  !.pos = offset + 1]
                  ELSE Fail(st, "Tag")
    ELSE IF Remaining(st) < st.lable_len THEN Fail(st, "Eof")
         ELSE LET st1 == [st EXCEPT !.name = Append(@,
                                       [i \in 1..st.lable_len |-> ByteAt(st, i)]),
                                    !.pos = @ + st.lable_len]
              IN  IF Remaining(st1) < 1 THEN Fail(st1, "Eof")
                  ELSE LET st2 == [st1 EXCEPT !.lable_len = ByteAt(st1, 1),
                                              !.pos = @ + 1]
                       IN  IF st2.lable_len = 0 THEN FinishName(st2) ELSE st2

\* One turn of the loop of parse_label_seq.
StepNameLoop(st) ==
    IF is_compressed_label(st.lable_len)
    THEN IF Remaining(st) < 1 THEN Fail(st, "Eof")
         ELSE LET offset == (st.lable_len % 64) * 256 + ByteAt(st, 1)
                  po     == st.parse_offset + 1
              IN  IF offset \in DOMAIN st.label_offsets
                  THEN LET name == Append(st.name, st.label_offsets[offset])
                       IN  FinishName(
                             [st EXCEPT !.pos = @ + 1, !.parse_offset = po,
                                        !.name = name,
                                        !.name_map = ((po - 1) :> join(name)) @@ @])
                  ELSE Fail([st EXCEPT !.pos = @ + 1, !.parse_offset = po], "Tag")
    ELSE IF Remaining(st) < st.lable_len THEN Fail(st, "Eof")
         ELSE LET label == from_utf8_lossy(
                             [i \in 1..st.lable_len |-> ByteAt(st, i)])
                  nmap  == ((st.parse_offset - 1) :> label)
                             @@ [k \in DOMAIN st.name_map |->
                                    st.name_map[k] \o <<Dot>> \o label]
                  st1   == [st EXCEPT !.name = Append(@, label),
                                      !.name_map = nmap,
                                      !.pos = @ + st.lable_len,
                                      !.parse_offset = @ + st.lable_len]
              IN  IF Remaining(st1) < 1 THEN Fail(st1, "Eof")
                  ELSE LET st2 == [st1 EXCEPT !.lable_len = ByteAt(st1, 1),
                                              !.pos = @ + 1,
                                              !.parse_offset = @ + 1]
                       IN  IF st2.lable_len = 0 THEN FinishName(st2) ELSE st2

\* Question::parse after the name: type and class.
StepQTail(st) ==
    IF Remaining(st) < 2 THEN Fail(st, "Eof")
    ELSE LET tipe == QType_from_value(U16At(st, 1))
         IN  IF ~tipe.ok THEN Fail(st, "Tag")
             ELSE IF Remaining(st) < 4 THEN Fail(st, "Eof")
             ELSE LET class == ResourceClass_from_value(U16At(st, 3))
                  IN  IF ~class.ok THEN Fail(st, "Tag")
                      ELSE NextRecord(
                             [st EXCEPT !.questions = Append(@,
                                            [tipe |-> tipe.val, class |-> class.val,
                                             name |-> st.name]),
                                        !.pos = @ + 4, !.parse_offset = @ + 4,
                                        !.qleft = @ - 1])

\* Answer::parse after the name: type, class, ttl, rdlength, rdata.
StepATail(st) ==
    IF Remaining(st) < 2 THEN Fail(st, "Eof")
    ELSE LET tipe == QType_from_value(U16At(st, 1))
         IN  IF ~tipe.ok THEN Fail(st, "Tag")
             ELSE IF Remaining(st) < 4 THEN Fail(st, "Eof")
             ELSE LET class == ResourceClass_from_value(U16At(st, 3))
                  IN  IF ~class.ok THEN Fail(st, "Tag")
                      ELSE IF Remaining(st) < 10 THEN Fail(st, "Eof")
                      ELSE LET ttl == U16At(st, 5) * 65536 + U16At(st, 7)
                               rdlength == U16At(st, 9)
                           IN  IF Remaining(st) < 10 + rdlength THEN Fail(st, "Eof")
                               ELSE NextRecord(
                                      [st EXCEPT !.answers = Append(@,
                                            [name |-> st.name, tipe |-> tipe.val,
                                             class |-> class.val, ttl |-> ttl,
                                             rdlength |-> rdlength,
                                             rdata |-> [i \in 1..rdlength |->
                                                           ByteAt(st, 10 + i)]]),
                                        !.pos = @ + 10 + rdlength,
                                        !.parse_offset = @ + 10 + rdlength,
                                        !.aleft = @ - 1])

Running(st) == st.pc \notin {"done", "err"}

Step(st) ==
    CASE st.pc = "header"     -> StepHeader(st)
      [] st.pc = "name_start" -> StepNameStart(st)
      [] st.pc = "name_loop"  -> StepNameLoop(st)
      [] st.pc = "q_tail"     -> StepQTail(st)
      [] st.pc = "a_tail"     -> StepATail(st)
      [] OTHER                -> st

RECURSIVE Run(_)
Run(st) == IF Running(st) THEN Run(Step(st)) ELSE st

\* Message::parse(bites): Ok((rest, m)) when pc is "done", Err otherwise.
Message_parse(bites) == Run(ParseInit(bites))

MessageOf(st) ==
    [header |-> st.header, questions |-> st.questions, answers |-> st.answers]


(***************************************************************************)
(* DnsServer (src/server.rs).  A Message here is [header, questions,       *)
(* answers]; its private label_offsets is read by parse_label_seq alone    *)
(* and by nothing of DnsServer or to_bytes.                                *)
(***************************************************************************)
None == "None"
Upstream == "up"
Clients == {"c1", "c2"}

\* One socket.send_to(&m.to_bytes(), to): the bytes put on the wire, the
\* Message they were made from, and the call of process that sent them.
Datagram(m, to, at) ==
    [to |-> to, bytes |-> Message_to_bytes(m), msg |-> m, at |-> at]

\* update_message of server.rs: the stub reply.
update_message(m) ==
    [ header    |-> [m.header EXCEPT !.qr = TRUE, !.aa = FALSE, !.tc = FALSE,
                                     !.ra = FALSE, !.z = 0,
                                     !.qdcount = AsU16(Len(m.questions)),
                                     !.ancount = AsU16(Len(m.questions))],
      questions |-> [i \in 1..Len(m.questions) |->
                        [m.questions[i] EXCEPT !.tipe = "A", !.class = "IN"]],
      answers   |-> [i \in 1..Len(m.questions) |->
                        [name |-> m.questions[i].name, tipe |-> "A",
                         class |-> "IN", ttl |-> 60, rdlength |-> 4,
                         rdata |-> <<127, 0, 0, 1>>]] ]

\* process, upstream reply: the and_modify closure on source_map; the count
\* is a u16 (the subtraction wraps unless the build checks overflow).
Decrement(e) == [e EXCEPT !.cnt = AsU16(@ - 1)]

\* Mutant: the answers of a reply are put before those already kept.
Accumulate_Prepend(msg, m) ==
    [msg EXCEPT !.header.ancount = AsU16(@ + 1),
                !.header.qr = TRUE,
                !.header.rcode = 4,
                !.answers = m.answers \o @]

\* process, upstream reply: the and_modify closure on orig_messages.
Accumulate(msg, m) ==
    [msg EXCEPT !.header.ancount = AsU16(@ + 1),
                !.header.qr = TRUE,
                !.header.rcode = 4,
                !.answers = @ \o m.answers]

\* process, upstream reply: the test that decides the entry is complete.
Complete(e) == e.cnt <= 0

\* Mutant: the combined reply goes out with the count kept by Accumulate.
Combined_NoRecount(msg) == msg

\* process, upstream reply: the combined reply as it is sent.
Combined(msg) == [msg EXCEPT !.header.ancount = AsU16(Len(msg.answers))]

\* process, client query: the entry inserted into source_map.
NewEntry(m, source) == [cnt |-> AsU16(Len(m.questions)), addr |-> source]

\* Mutant: the forwarded message keeps the client's qdcount.
Forwarded_KeepCount(m, q) == [m EXCEPT !.questions = <<q>>]

\* process, client query: the message forwarded for question q.
Forwarded(m, q) ==
    [m EXCEPT !.header.qdcount = 1, !.questions = <<q>>]

\* process, client query: the message kept in orig_messages.
Stored(m) == [m EXCEPT !.answers = <<>>]

Remove(map, k) == [x \in DOMAIN map \ {k} |-> map[x]]
\* Mutant: an insert under a key already present leaves the old value.
Insert_KeepOld(map, k, v) == map @@ (k :> v)

Insert(map, k, v) == (k :> v) @@ map

Call(m, source) == [m |-> m, source |-> source, had |-> DOMAIN source_map]

\* process with no resolver: the stub reply goes back to the sender.
ProcessStub(m, source) ==
    /\ resolver = None
    /\ hist' = Append(hist, Call(m, source))
    /\ sent' = Append(sent, Datagram(update_message(m), source, Len(hist) + 1))
    /\ UNCHANGED <<resolver, source_map, orig_messages, crashed, buf, received, main_pc, pst>>

\* process with a resolver, m.header.qr set: an upstream reply.
ProcessReply(m, source) ==
    LET id   == m.header.id
        at   == Len(hist) + 1
        om1  == IF id \in DOMAIN orig_messages
                THEN [orig_messages EXCEPT ![id] = Accumulate(@, m)]
                ELSE orig_messages
    IN  /\ resolver # None
        /\ m.header.qr
        /\ hist' = Append(hist, Call(m, source))
        /\ UNCHANGED <<resolver, buf, received, main_pc, pst>>
        /\ IF id \notin DOMAIN source_map
           THEN \* source_map.get(..).unwrap() on None panics
                /\ crashed' = TRUE
                /\ orig_messages' = om1
                /\ UNCHANGED <<source_map, sent>>
           ELSE \/ \* a build with overflow checks panics on 0 - 1
                   /\ source_map[id].cnt = 0
                   /\ crashed' = TRUE
                   /\ UNCHANGED <<source_map, orig_messages, sent>>
                \/ LET sm1 == [source_map EXCEPT ![id] = Decrement(@)]
                   IN  /\ crashed' = FALSE
                       /\ IF Complete(sm1[id])
                          THEN /\ sent' = IF id \in DOMAIN om1
                                          THEN Append(sent,
                                                 Datagram(Combined(om1[id]),
                                                          sm1[id].addr, at))
                                          ELSE sent
                               /\ orig_messages' = Remove(om1, id)
                               /\ source_map' = Remove(sm1, id)
                          ELSE /\ sent' = sent
                               /\ orig_messages' = om1
                               /\ source_map' = sm1

\* Mutant: the client's message is not put into orig_messages.
ProcessQuery_NoStore(m, source) ==
    /\ resolver # None
    /\ ~m.header.qr
    /\ hist' = Append(hist, Call(m, source))
    /\ source_map' = Insert(source_map, m.header.id, NewEntry(m, source))
    /\ sent' = sent \o [i \in 1..Len(m.questions) |->
                          Datagram(Forwarded(m, m.questions[i]), resolver,
                                   Len(hist) + 1)]
    /\ UNCHANGED <<resolver, orig_messages, crashed, buf, received, main_pc, pst>>

\* process with a resolver, m.header.qr clear: a client query.
ProcessQuery(m, source) ==
    /\ resolver # None
    /\ ~m.header.qr
    /\ hist' = Append(hist, Call(m, source))
    /\ source_map' = Insert(source_map, m.header.id, NewEntry(m, source))
    /\ sent' = sent \o [i \in 1..Len(m.questions) |->
                          Datagram(Forwarded(m, m.questions[i]), resolver,
                                   Len(hist) + 1)]
    /\ orig_messages' = Insert(orig_messages, m.header.id, Stored(m))
    /\ UNCHANGED <<resolver, crashed, buf, received, main_pc, pst>>

(***************************************************************************)
(* The messages handed to process.  They are values Message::parse can     *)
(* return: qdcount and ancount equal the lengths of the sections, nscount  *)
(* and arcount are whatever the datagram said.                             *)
(***************************************************************************)
MaxQ == 2
MaxEvents == 4
Ids == {1, 2}

Qn(i) == [tipe |-> QTypeNames[((i - 1) % 16) + 1],
          class |-> ResourceClassNames[((i - 1) % 4) + 1],
          name |-> << <<96 + i>> >>]
An(i) == [name |-> << <<96 + i>> >>, tipe |-> "A", class |-> "IN",
          ttl |-> 60, rdlength |-> 1, rdata |-> <<i>>]

Msg(id, qr, questions, answers, arcount) ==
    [ header |-> [id |-> id, qr |-> qr, opcode |-> 0, aa |-> FALSE,
                  tc |-> FALSE, rd |-> TRUE, ra |-> qr, z |-> 0, rcode |-> 0,
                  qdcount |-> Len(questions), ancount |-> Len(answers),
                  nscount |-> 0, arcount |-> arcount],
      questions |-> questions,
      answers |-> answers ]

Questions(n) == [i \in 1..n |-> Qn(i)]

\* Client queries.  The first client asks 0..MaxQ questions under id 1.  The
\* second asks one question: under id 1 with an additional record announced
\* (as an EDNS client does), under id 2 with an answer record in the query.
Queries ==
    {[m |-> Msg(1, FALSE, Questions(n), <<>>, 0), source |-> "c1"] : n \in 0..MaxQ}
    \cup {[m |-> Msg(1, FALSE, Questions(1), <<>>, 1), source |-> "c2"],
          [m |-> Msg(2, FALSE, Questions(1), <<An(4)>>, 0), source |-> "c2"]}

\* Upstream replies: one answer, or two.
Replies ==
    {[m |-> Msg(id, TRUE, Questions(1), ans, 0), source |-> Upstream] :
        id \in Ids, ans \in {<<An(1)>>, <<An(2), An(3)>>}}

Inbound == Queries \cup Replies

IdleParse == [ParseInit(<<>>) EXCEPT !.pc = "idle"]

\* DnsServer::new(Some(resolver)): the forwarding server.
Init ==
    /\ resolver = Upstream
    /\ source_map = EmptyMap
    /\ orig_messages = EmptyMap
    /\ sent = <<>>
    /\ crashed = FALSE
    /\ hist = <<>>
    /\ buf = <<>>
    /\ received = <<>>
    /\ main_pc = "loop"
    /\ pst = IdleParse

Enabled == ~crashed /\ Len(hist) < MaxEvents

\* One turn of the serving loop: a datagram with qr = 1 ...
Reply == Enabled /\ \E d \in Inbound : ProcessReply(d.m, d.source)

\* ... or with qr = 0.
Query == Enabled /\ \E d \in Inbound : ProcessQuery(d.m, d.source)

Next == Reply \/ Query

Spec == Init /\ [][Next]_vars

\* DnsServer::new(None): the stub responder.
MaxStubEvents == 3

StubInit ==
    /\ resolver = None
    /\ source_map = EmptyMap
    /\ orig_messages = EmptyMap
    /\ sent = <<>>
    /\ crashed = FALSE
    /\ hist = <<>>
    /\ buf = <<>>
    /\ received = <<>>
    /\ main_pc = "loop"
    /\ pst = IdleParse

Stub == Len(hist) < MaxStubEvents /\ \E d \in Inbound : ProcessStub(d.m, d.source)

StubNext == Stub

StubSpec == StubInit /\ [][StubNext]_vars

(***************************************************************************)
(* One run of Message::parse, step by step, on an input drawn from:        *)
(*   - the encodings of messages without pointers, and their prefixes;     *)
(*   - two-question messages whose second name is a pointer to a label of  *)
(*     the first;                                                          *)
(*   - packets whose pointers point to themselves or form a cycle;         *)
(*   - a header followed by any short byte string.                         *)
(***************************************************************************)
MaxLabels == 3
MaxTail == 4

Labels == {<<109>>, <<101, 120>>}
Names == UNION {[1..n -> Labels] : n \in 0..MaxLabels}
MailExampleCom ==
    << <<109, 97, 105, 108>>, <<101, 120, 97, 109, 112, 108, 101>>,
       <<99, 111, 109>> >>

NamedQ(name) == [tipe |-> "NS", class |-> "IN", name |-> name]
NamedA(name) == [name |-> name, tipe |-> "A", class |-> "IN", ttl |-> 60,
                 rdlength |-> 1, rdata |-> <<7>>]

\* Two questions and two answers of other types and classes, a ttl with four
\* distinct bytes, rdata of two bytes and of none.
VariedMsg ==
    Msg(258, TRUE,
        << [tipe |-> "TXT", class |-> "HS", name |-> << <<109>>, <<101, 120>> >>],
           [tipe |-> "MX", class |-> "CH", name |-> << <<101, 120>> >>] >>,
        << [name |-> << <<109>> >>, tipe |-> "CNAME", class |-> "CS",
            ttl |-> 16909060, rdlength |-> 2, rdata |-> <<0, 192>>],
           [name |-> << <<101, 120>>, <<109>> >>, tipe |-> "SOA", class |-> "IN",
            ttl |-> 0, rdlength |-> 0, rdata |-> <<>>] >>,
        0)

ValidMsgs ==
    {Msg(1, FALSE, <<NamedQ(n)>>, <<>>, 0) : n \in Names \cup {MailExampleCom}}
    \cup {Msg(1, TRUE, <<NamedQ(n)>>, <<NamedA(n)>>, 0) : n \in Names}
    \cup {Msg(1, TRUE, <<>>, <<NamedA(n)>>, 0) : n \in Names}
    \cup {VariedMsg}

ProperPrefixes(b) == {SubSeq(b, 1, k) : k \in 0..(Len(b) - 1)}
Encoded == {Message_to_bytes(m) : m \in ValidMsgs}
Truncated == UNION {ProperPrefixes(b) : b \in Encoded}

\* The offset of the k-th label of the first name of a message, and a
\* compression pointer to an offset.
RECURSIVE LabelOffset(_, _)
LabelOffset(name, k) ==
    IF k = 1 THEN HeaderLen
    ELSE LabelOffset(name, k - 1) + 1 + Len(name[k - 1])
Pointer(off) == <<192 + Hi(off), Lo(off)>>

BareHeader(qd) == Header_to_bytes(Msg(1, FALSE, [i \in 1..qd |-> Qn(1)], <<>>, 0).header)
TypeClass == <<0, 2, 0, 1>>

\* Two questions; the name of the second is a pointer to label k of the first.
CompressedPair(name, k) ==
    BareHeader(2) \o Question_to_bytes(NamedQ(name))
        \o Pointer(LabelOffset(name, k)) \o TypeClass
PairNames == (Names \cup {MailExampleCom}) \ {<<>>}
Pairs == UNION {{[name |-> n, k |-> k] : k \in 1..Len(n)} : n \in PairNames}
CompressedPairs == {CompressedPair(p.name, p.k) : p \in Pairs}
PairsOf(bites) == {p \in Pairs : CompressedPair(p.name, p.k) = bites}

\* Two questions; the name of the second is the label "m" followed by a
\* pointer to label k of the first.
PrefixedPair(name, k) ==
    BareHeader(2) \o Question_to_bytes(NamedQ(name))
        \o <<1, 109>> \o Pointer(LabelOffset(name, k)) \o TypeClass
PrefixedPairs == {PrefixedPair(p.name, p.k) : p \in Pairs}
PrefixedPairsOf(bites) == {p \in Pairs : PrefixedPair(p.name, p.k) = bites}

\* Pointers that point to themselves, or to a later pointer that points back:
\* as a whole name, after a label, and in a second question.
SecondAt(name) == HeaderLen + Len(Question_to_bytes(NamedQ(name)))
LoopPackets ==
    { BareHeader(1) \o Pointer(HeaderLen) \o TypeClass,
      BareHeader(1) \o Pointer(HeaderLen + 2) \o Pointer(HeaderLen) \o TypeClass,
      BareHeader(1) \o <<1, 109>> \o Pointer(HeaderLen + 2) \o TypeClass,
      BareHeader(1) \o <<1, 109>> \o Pointer(HeaderLen + 4)
                    \o Pointer(HeaderLen + 2) \o TypeClass }
    \cup { BareHeader(2) \o Question_to_bytes(NamedQ(n))
               \o Pointer(SecondAt(n)) \o TypeClass : n \in PairNames }
    \cup { BareHeader(2) \o Question_to_bytes(NamedQ(n))
               \o Pointer(SecondAt(n) + 2) \o Pointer(SecondAt(n)) \o TypeClass :
             n \in PairNames }

TailBytes == {0, 1, 12, 13, 109, 192}
Tails == UNION {[1..n -> TailBytes] : n \in 0..MaxTail}
Arbitrary == {BareHeader(qd) \o t : qd \in 1..2, t \in Tails}

CodecInputs ==
    Encoded \cup Truncated \cup CompressedPairs \cup PrefixedPairs
        \cup LoopPackets \cup Arbitrary

CodecInit ==
    /\ resolver = None
    /\ source_map = EmptyMap
    /\ orig_messages = EmptyMap
    /\ sent = <<>>
    /\ crashed = FALSE
    /\ hist = <<>>
    /\ buf = <<>>
    /\ received = <<>>
    /\ main_pc = "loop"
    /\ pst \in {ParseInit(b) : b \in CodecInputs}

ServerIdle ==
    UNCHANGED <<resolver, source_map, orig_messages, sent, crashed, hist,
                buf, received, main_pc>>

ParseHeader == pst.pc = "header" /\ pst' = StepHeader(pst) /\ ServerIdle
ParseNameStart == pst.pc = "name_start" /\ pst' = StepNameStart(pst) /\ ServerIdle
ParseNameLoop == pst.pc = "name_loop" /\ pst' = StepNameLoop(pst) /\ ServerIdle
ParseQuestionTail == pst.pc = "q_tail" /\ pst' = StepQTail(pst) /\ ServerIdle
ParseAnswerTail == pst.pc = "a_tail" /\ pst' = StepATail(pst) /\ ServerIdle

CodecNext ==
    \/ ParseHeader
    \/ ParseNameStart
    \/ ParseNameLoop
    \/ ParseQuestionTail
    \/ ParseAnswerTail

\* Message::parse is straight-line code run by one thread: a run that can
\* take a step takes it.
CodecSpec == CodecInit /\ [][CodecNext]_vars /\ WF_vars(CodecNext)

(***************************************************************************)
(* main (src/main.rs): bind, then receive, parse the buffer and answer, in *)
(* a loop.  The buffer is parsed whole, whatever the size recv_from        *)
(* returned, so bytes of earlier datagrams lie behind a shorter one.       *)
(***************************************************************************)
BufLen == 512
MaxRecv == 3

\* update_message of main.rs.
main_update_message(m) ==
    [ header    |-> [m.header EXCEPT !.qr = TRUE, !.aa = FALSE, !.tc = FALSE,
                                     !.ra = FALSE, !.z = 0, !.rcode = 4,
                                     !.qdcount = AsU16(Len(m.questions)),
                                     !.ancount = 1],
      questions |-> m.questions,
      answers   |-> << [name |-> << <<99, 111, 100, 101, 99, 114, 97, 102,
                                      116, 101, 114, 115>>, <<105, 111>> >>,
                        tipe |-> "A", class |-> "IN", ttl |-> 60,
                        rdlength |-> 4, rdata |-> <<127, 0, 0, 1>>] >> ]

\* recv_from(&mut buf): the datagram overwrites the front of the buffer.
Recv(b, d) == [i \in 1..BufLen |-> IF i <= Len(d) THEN d[i] ELSE b[i]]

\* Mutant: the result of the parse is used whether it is Ok or Err.
MainHandle_ReplyAnyway(r, source, at) ==
    <<Datagram(main_update_message(MessageOf(r)), source, at)>>

\* The match on Message::parse(&buf): what main sends for the result r.
MainHandle(r, source, at) ==
    IF r.pc = "done"
    THEN <<Datagram(main_update_message(MessageOf(r)), source, at)>>
    ELSE <<>>

\* The datagrams main is sent: two queries, a header alone, a pointer to
\* itself, a question of unknown type, an answer longer than the buffer.
MainDatagrams ==
    { Message_to_bytes(Msg(1, FALSE, Questions(1), <<>>, 0)),
      Message_to_bytes(Msg(2, FALSE, <<NamedQ(MailExampleCom)>>, <<>>, 1)),
      BareHeader(1),
      BareHeader(1) \o Pointer(HeaderLen) \o TypeClass,
      BareHeader(1) \o <<1, 109, 0, 0, 99, 0, 1>>,
      Header_to_bytes(Msg(1, TRUE, <<>>, <<An(1)>>, 0).header)
          \o <<1, 109, 0, 0, 1, 0, 1, 0, 0, 0, 60, 255, 255, 7>> }

MainInit ==
    /\ resolver = None
    /\ source_map = EmptyMap
    /\ orig_messages = EmptyMap
    /\ sent = <<>>
    /\ crashed = FALSE
    /\ hist = <<>>
    /\ buf = [i \in 1..BufLen |-> 0]
    /\ received = <<>>
    /\ main_pc = "loop"
    /\ pst = IdleParse

\* One turn of the loop with recv_from returning Ok((size, source)).
MainRecv ==
    /\ main_pc = "loop"
    /\ Len(received) < MaxRecv
    /\ \E d \in MainDatagrams, source \in Clients :
          LET r == Message_parse(Recv(buf, d))
          IN  /\ buf' = Recv(buf, d)
              /\ received' = Append(received,
                                [bytes |-> d, source |-> source, err |-> r.err,
                                 m |-> MessageOf(r)])
              /\ sent' = sent \o MainHandle(r, source, Len(received) + 1)
    /\ UNCHANGED <<resolver, source_map, orig_messages, crashed, hist, main_pc, pst>>

\* One turn of the loop with recv_from returning Err: break.
MainRecvError ==
    /\ main_pc = "loop"
    /\ main_pc' = "exit"
    /\ UNCHANGED <<resolver, source_map, orig_messages, sent, crashed, hist,
                   buf, received, pst>>

MainNext == MainRecv \/ MainRecvError

MainSpec == MainInit /\ [][MainNext]_vars

(***************************************************************************)
(* What the claims speak of, read off the history and the wire.            *)
(***************************************************************************)
IsQuery(e) == ~e.m.header.qr
IsReply(e) == e.m.header.qr
IdOf(e) == e.m.header.id

WireU16(bytes, k) == bytes[k] * 256 + bytes[k + 1]
WireId(d) == WireU16(d.bytes, 1)
WireQr(d) == d.bytes[3] >= 128
WireQd(d) == WireU16(d.bytes, 5)
WireAn(d) == WireU16(d.bytes, 7)
WireNs(d) == WireU16(d.bytes, 9)
WireAr(d) == WireU16(d.bytes, 11)
WireBody(d) == SubSeq(d.bytes, HeaderLen + 1, Len(d.bytes))

\* The bytes of a question section and of an answer section.
QuestionSection(qs) == Concat(MapSeq(Question_to_bytes, qs))
AnswerSection(as) == Concat(MapSeq(Answer_to_bytes, as))

\* A set of call numbers as an ascending sequence.
RECURSIVE Ascending(_)
Ascending(S) ==
    IF S = {} THEN <<>>
    ELSE LET lo == CHOOSE j \in S : \A k \in S : j <= k
         IN  <<lo>> \o Ascending(S \ {lo})

\* The cycle a client query at call i opens: it lasts until the next client
\* query with the same id, or until now.
CycleEnd(i) ==
    LET later == {j \in (i + 1)..Len(hist) :
                     IsQuery(hist[j]) /\ IdOf(hist[j]) = IdOf(hist[i])}
    IN  IF later = {} THEN Len(hist)
        ELSE (CHOOSE j \in later : \A k \in later : j <= k) - 1

\* The upstream replies of that cycle, and the answers of its first n.
CycleReplies(i) ==
    Ascending({j \in (i + 1)..CycleEnd(i) :
                  IsReply(hist[j]) /\ IdOf(hist[j]) = IdOf(hist[i])})

RECURSIVE AnswersOf(_, _)
AnswersOf(R, n) ==
    IF n = 0 THEN <<>> ELSE AnswersOf(R, n - 1) \o hist[R[n]].m.answers

\* The responses (qr = 1) with the cycle's id sent during the cycle.
CycleResponses(i) ==
    LET P(d) == /\ d.at \in i..CycleEnd(i)
                /\ WireId(d) = IdOf(hist[i])
                /\ WireQr(d)
    IN  SelectSeq(sent, P)

SentAt(i) == SelectSeq(sent, LAMBDA d : d.at = i)

\* A client query that opens a cycle of its own: n >= 1 questions, and no
\* entry with its id outstanding when it arrives.
OpensCycle(i) ==
    /\ IsQuery(hist[i])
    /\ Len(hist[i].m.questions) >= 1
    /\ IdOf(hist[i]) \notin hist[i].had

(***************************************************************************)
(* C1 (fan-in).  For a client query with N >= 1 questions and id T that    *)
(* arrives while no entry for T is outstanding: as long as fewer than N    *)
(* upstream replies with id T have been processed, no response with id T   *)
(* has been sent; once N have been processed, in whatever order, exactly   *)
(* one response has been sent, by the N-th reply, to the address the query *)
(* came from, and its bytes carry id T, qr = 1, the original questions,    *)
(* the answers of the N replies in arrival order, and an ancount equal to  *)
(* their number.                                                           *)
(***************************************************************************)
C1_FanIn ==
    \A i \in 1..Len(hist) :
        OpensCycle(i) =>
            LET e  == hist[i]
                N  == Len(e.m.questions)
                R  == CycleReplies(i)
                cr == CycleResponses(i)
            IN  IF Len(R) < N THEN cr = <<>>
                ELSE LET as == AnswersOf(R, N)
                     IN  /\ Len(cr) = 1
                         /\ cr[1].at = R[N]
                         /\ cr[1].to = e.source
                         /\ WireId(cr[1]) = IdOf(e)
                         /\ WireQr(cr[1])
                         /\ WireQd(cr[1]) = N
                         /\ WireAn(cr[1]) = Len(as)
                         /\ WireBody(cr[1]) =
                               QuestionSection(e.m.questions) \o AnswerSection(as)

\* A two-question query answered by two replies that differ, the one with two
\* answers first, and the combined reply sent.
C1_Witness ==
    \E i \in 1..Len(hist) :
        /\ OpensCycle(i)
        /\ Len(hist[i].m.questions) = 2
        /\ Len(CycleReplies(i)) = 2
        /\ Len(hist[CycleReplies(i)[1]].m.answers) = 2
        /\ Len(hist[CycleReplies(i)[2]].m.answers) = 1
        /\ Len(CycleResponses(i)) = 1

(***************************************************************************)
(* C2 (fan-out).  A client query with N >= 1 questions sends exactly N     *)
(* datagrams, all to the upstream resolver and none to the client; the     *)
(* k-th has qdcount = 1, holds exactly the k-th question, and carries the  *)
(* client's id; when the call returns, source_map holds under that id the  *)
(* count N and the client's address.                                       *)
(***************************************************************************)
C2_FanOut ==
    \A i \in 1..Len(hist) :
        (IsQuery(hist[i]) /\ Len(hist[i].m.questions) >= 1) =>
            LET e == hist[i]
                N == Len(e.m.questions)
                out == SentAt(i)
            IN  /\ Len(out) = N
                /\ \A k \in 1..N :
                      /\ out[k].to = Upstream
                      /\ out[k].to # e.source
                      /\ WireId(out[k]) = IdOf(e)
                      /\ ~WireQr(out[k])
                      /\ WireQd(out[k]) = 1
                      /\ out[k].msg.questions = <<e.m.questions[k]>>
                      /\ SubSeq(WireBody(out[k]), 1,
                                Len(Question_to_bytes(e.m.questions[k])))
                            = Question_to_bytes(e.m.questions[k])
                /\ (i = Len(hist)) =>
                      /\ IdOf(e) \in DOMAIN source_map
                      /\ source_map[IdOf(e)] = [cnt |-> N, addr |-> e.source]

\* A two-question query has just been forwarded.
C2_Witness ==
    /\ hist # <<>>
    /\ IsQuery(hist[Len(hist)])
    /\ Len(hist[Len(hist)].m.questions) = 2
    /\ Len(SentAt(Len(hist))) = 2

(***************************************************************************)
(* C3.  An upstream reply whose id matches no correlation entry is         *)
(* dropped: nothing is sent, the table is as it was, and the server has    *)
(* not aborted.                                                            *)
(***************************************************************************)
C3_UnmatchedReplyDropped ==
    \A i \in 1..Len(hist) :
        (IsReply(hist[i]) /\ IdOf(hist[i]) \notin hist[i].had) =>
            /\ ~crashed
            /\ SentAt(i) = <<>>
            /\ (i = Len(hist)) => DOMAIN source_map = hist[i].had

(***************************************************************************)
(* C4.  A client query with no question is answered at once: nothing is    *)
(* forwarded, a response with an empty answer section goes to the client   *)
(* during the call, and no entry for its id remains.                       *)
(***************************************************************************)
C4_ZeroQuestions ==
    \A i \in 1..Len(hist) :
        (IsQuery(hist[i]) /\ Len(hist[i].m.questions) = 0) =>
            /\ \A k \in 1..Len(SentAt(i)) : SentAt(i)[k].to # Upstream
            /\ \E k \in 1..Len(SentAt(i)) :
                  /\ SentAt(i)[k].to = hist[i].source
                  /\ WireQr(SentAt(i)[k])
                  /\ WireAn(SentAt(i)[k]) = 0
            /\ (i = Len(hist)) =>
                  /\ IdOf(hist[i]) \notin DOMAIN source_map
                  /\ IdOf(hist[i]) \notin DOMAIN orig_messages

(***************************************************************************)
(* C5.  An entry is removed exactly when its count reaches zero, so no     *)
(* entry with count zero is ever left in the table; and once every         *)
(* forwarded sub-query has been answered, the table is empty.              *)
(***************************************************************************)
Forwards(T) ==
    Cardinality({k \in 1..Len(sent) : sent[k].to = Upstream /\ WireId(sent[k]) = T})
RepliesTo(T) ==
    Cardinality({j \in 1..Len(hist) : IsReply(hist[j]) /\ IdOf(hist[j]) = T})
AllCyclesComplete ==
    /\ hist # <<>>
    /\ \A T \in Ids : Forwards(T) = RepliesTo(T)

C5_RemovedAtZero ==
    /\ \A T \in DOMAIN source_map : source_map[T].cnt >= 1
    /\ AllCyclesComplete =>
          /\ source_map = EmptyMap
          /\ orig_messages = EmptyMap

(***************************************************************************)
(* C6.  In every datagram sent, each header count equals the number of     *)
(* entries written in its section.  Message::to_bytes writes the header,   *)
(* the questions and the answers and nothing else, so the number of        *)
(* authority and of additional records written is zero.                    *)
(***************************************************************************)
C6_CountsMatchSections ==
    \A k \in 1..Len(sent) :
        LET d == sent[k]
        IN  /\ WireBody(d) = QuestionSection(d.msg.questions)
                                \o AnswerSection(d.msg.answers)
            /\ WireQd(d) = Len(d.msg.questions)
            /\ WireAn(d) = Len(d.msg.answers)
            /\ WireNs(d) = 0
            /\ WireAr(d) = 0

Finished(st) == st.pc \in {"done", "err"}

(***************************************************************************)
(* C7 (compression).  In a message of two questions whose second name is   *)
(* a pointer to a label of the first, the second question decodes to the   *)
(* label sequence of that suffix, as if it had been written without        *)
(* compression, and encodes again to one length-prefixed label per label   *)
(* of the suffix.                                                          *)
(***************************************************************************)
Suffix(p) == SubSeq(p.name, p.k, Len(p.name))

C7_PointerToSuffix ==
    \A p \in PairsOf(pst.bites) :
        Finished(pst) =>
            /\ pst.pc = "done"
            /\ Len(pst.questions) = 2
            /\ pst.questions[1].name = p.name
            /\ pst.questions[2].name = Suffix(p)
            /\ Question_to_bytes(pst.questions[2])
                  = Question_to_bytes(NamedQ(Suffix(p)))

(***************************************************************************)
(* C8 (pointer loops), as the source has it.  Every run of the decoder     *)
(* ends; it never consumes more than the input holds; and a packet whose   *)
(* pointer points to itself, or to a later pointer that points back, is    *)
(* refused with the failure the source raises for a pointer whose offset   *)
(* is not in the table (Err::Failure, ErrorKind::Tag).                     *)
(***************************************************************************)
C8_LoopPacketsFail ==
    /\ <>Finished(pst)
    /\ [](pst.pos <= Len(pst.bites))
    /\ []((pst.bites \in LoopPackets /\ Finished(pst)) =>
             (pst.pc = "err" /\ pst.err = "Tag"))

\* C8 as claimed: the failure is a CompressionLoop error of its own.
C8_CompressionLoop ==
    (pst.bites \in LoopPackets /\ Finished(pst)) =>
        (pst.pc = "err" /\ pst.err = "CompressionLoop")

\* A packet with a pointer cycle has been refused.
C8_Witness ==
    /\ pst.bites \in LoopPackets
    /\ pst.pc = "err"
    /\ pst.err = "Tag"

(***************************************************************************)
(* C9 (truncation).  Decoding a proper prefix of the encoding of a valid   *)
(* message without pointers fails with the truncated-input error (nom's    *)
(* Eof), never succeeds and never fails otherwise, and reads no byte past  *)
(* the end of the prefix.                                                  *)
(***************************************************************************)
C9_TruncatedIsEof ==
    /\ pst.pos <= Len(pst.bites)
    /\ (pst.bites \in Truncated /\ Finished(pst)) =>
          (pst.pc = "err" /\ pst.err = "Eof")

(***************************************************************************)
(* C10.  A turn of the receive loop whose decode fails sends nothing,      *)
(* leaves the server state as it was (main holds no correlation table, so  *)
(* the maps stay empty), and goes on to the next turn: the loop has        *)
(* neither ended nor panicked.                                             *)
(***************************************************************************)
C10_DecodeFailureDiscarded ==
    [][ (received' # received /\ Message_parse(buf').pc = "err") =>
           /\ sent' = sent
           /\ source_map' = source_map
           /\ orig_messages' = orig_messages
           /\ main_pc' = "loop"
           /\ ~crashed' ]_vars

\* A datagram was refused, and a later one was answered.
C10_Witness ==
    \E i, j \in 1..Len(received) :
        /\ i < j
        /\ received[i].err # "none"
        /\ SentAt(i) = <<>>
        /\ received[j].err = "none"
        /\ SentAt(j) # <<>>

(***************************************************************************)
(* C11 (stub reply).  A query with N questions, received where no upstream *)
(* is configured, is answered during the same turn by one datagram to its  *)
(* sender with qr = 1, aa = 0, tc = 0, ra = 0, z = 0, ancount = qdcount =  *)
(* N and one answer per question, in question order: the question's name,  *)
(* type A, class IN, ttl 60, rdlength 4, rdata 127.0.0.1; and no           *)
(* correlation entry is created.  StubAnswered states it of one query and  *)
(* the datagrams of its turn; C11_StubReply states it of main.             *)
(***************************************************************************)
StubAnswer(q) ==
    [name |-> q.name, tipe |-> "A", class |-> "IN", ttl |-> 60,
     rdlength |-> 4, rdata |-> <<127, 0, 0, 1>>]

StubAnswered(m, source, out) ==
    LET N == Len(m.questions)
    IN  /\ Len(out) = 1
        /\ out[1].to = source
        /\ WireQr(out[1])
        /\ (out[1].bytes[3] \div 2) % 4 = 0
        /\ out[1].bytes[4] \div 16 = 0
        /\ WireQd(out[1]) = N
        /\ WireAn(out[1]) = N
        /\ out[1].msg.answers = [k \in 1..N |-> StubAnswer(m.questions[k])]
        /\ SubSeq(out[1].bytes,
                  Len(out[1].bytes) - Len(AnswerSection(out[1].msg.answers)) + 1,
                  Len(out[1].bytes))
              = AnswerSection([k \in 1..N |-> StubAnswer(m.questions[k])])

C11_StubReply ==
    /\ source_map = EmptyMap
    /\ orig_messages = EmptyMap
    /\ \A i \in 1..Len(received) :
          received[i].err = "none" =>
              StubAnswered(received[i].m, received[i].source, SentAt(i))

\* The same of DnsServer::process with no resolver.
ServerStubAnswers ==
    /\ source_map = EmptyMap
    /\ orig_messages = EmptyMap
    /\ \A i \in 1..Len(hist) :
          StubAnswered(hist[i].m, hist[i].source, SentAt(i))

(***************************************************************************)
(* C12 (round trip).  Decoding the encoding of a valid message without     *)
(* pointers succeeds, consumes every byte, and yields the header, the      *)
(* questions and the answers of the message that was encoded.              *)
(***************************************************************************)
EncodedFrom(bites) == {m \in ValidMsgs : Message_to_bytes(m) = bites}

C12_RoundTrip ==
    \A m \in EncodedFrom(pst.bites) :
        Finished(pst) =>
            /\ pst.pc = "done"
            /\ pst.pos = Len(pst.bites)
            /\ MessageOf(pst) = m

(***************************************************************************)
(* The header alone: Header::parse of twelve bytes whose third and fourth  *)
(* take every value, then Header::to_bytes of the result; and              *)
(* Header::to_bytes of headers whose opcode, z and rcode (u8 fields) hold  *)
(* values wider than their places on the wire.                             *)
(***************************************************************************)
U8 == 0..255
FlagHeaders ==
    {<<0, 1, b2, b3, 0, 0, 0, 0, 0, 0, 0, 0>> : b2 \in U8, b3 \in U8}

FieldVals == {0, 1, 7, 8, 15, 16, 17, 128, 255}
WideHeaders ==
    {[NoHeader EXCEPT !.qr = f[1], !.aa = f[2], !.tc = f[3], !.rd = f[4],
                      !.ra = f[5], !.opcode = op, !.z = z, !.rcode = rc] :
        f \in [1..5 -> BOOLEAN], op \in FieldVals, z \in FieldVals,
        rc \in FieldVals}

Constructed(h) == [IdleParse EXCEPT !.header = h, !.pc = "done"]

HeaderInit ==
    /\ resolver = None
    /\ source_map = EmptyMap
    /\ orig_messages = EmptyMap
    /\ sent = <<>>
    /\ crashed = FALSE
    /\ hist = <<>>
    /\ buf = <<>>
    /\ received = <<>>
    /\ main_pc = "loop"
    /\ \/ \E b \in FlagHeaders : pst = ParseInit(b)
       \/ \E h \in WideHeaders : pst = Constructed(h)

\* Header::to_bytes of the header at hand, into buf.
EncodeHeader ==
    /\ pst.pc = "done"
    /\ buf = <<>>
    /\ buf' = Header_to_bytes(pst.header)
    /\ UNCHANGED <<resolver, source_map, orig_messages, sent, crashed, hist,
                   received, main_pc, pst>>

HeaderNext == ParseHeader \/ EncodeHeader

HeaderSpec == HeaderInit /\ [][HeaderNext]_vars

(***************************************************************************)
(* C13 (header bit-packing).  For every value of the two flag bytes,       *)
(* decoding the header and encoding it again gives the same bytes; and in  *)
(* every encoded header, whatever the values of opcode, z and rcode, the   *)
(* third byte holds qr in bit 7, the low four bits of opcode in bits 6-3,  *)
(* aa, tc, rd in bits 2, 1, 0, and the fourth holds ra in bit 7, the low   *)
(* three bits of z in bits 6-4 and the low four bits of rcode in bits 3-0. *)
(***************************************************************************)
Bits(byte, lo, width) == (byte \div (2 ^ lo)) % (2 ^ width)

C13_HeaderBits ==
    (buf # <<>>) =>
        LET h == pst.header
        IN  /\ ~crashed
            /\ Len(buf) = HeaderLen
            /\ (pst.bites # <<>>) => buf = pst.bites
            /\ Bits(buf[3], 7, 1) = B(h.qr)
            /\ Bits(buf[3], 3, 4) = h.opcode % 16
            /\ Bits(buf[3], 2, 1) = B(h.aa)
            /\ Bits(buf[3], 1, 1) = B(h.tc)
            /\ Bits(buf[3], 0, 1) = B(h.rd)
            /\ Bits(buf[4], 7, 1) = B(h.ra)
            /\ Bits(buf[4], 4, 3) = h.z % 8
            /\ Bits(buf[4], 0, 4) = h.rcode % 16

\* A header with opcode 17, z 8 and rcode 16 and every flag clear was
\* encoded: the bytes are 08 00.
C13_Witness ==
    /\ buf # <<>>
    /\ pst.bites = <<>>
    /\ pst.header.opcode = 17
    /\ pst.header.z = 8
    /\ pst.header.rcode = 16
    /\ ~pst.header.qr
    /\ ~pst.header.ra
    /\ buf[3] = 8
    /\ buf[4] = 0

\* The flag bytes FF FF were decoded and encoded again.
HeaderAllOnes ==
    /\ buf # <<>>
    /\ pst.bites # <<>>
    /\ pst.bites[3] = 255
    /\ pst.bites[4] = 255

(***************************************************************************)
(* Answer::to_bytes alone, on Answer values built by a caller (the fields  *)
(* of Answer are public): the stored rdlength may or may not be the length *)
(* of rdata.                                                               *)
(***************************************************************************)
MaxRdata == 2

RdataBytes == {0, 7, 255}
Rdatas == UNION {[1..n -> RdataBytes] : n \in 0..MaxRdata}
RdLengths == 0..MaxRdata \cup {258}
AnswerValues ==
    {[name |-> n, tipe |-> "A", class |-> "IN", ttl |-> 60,
      rdlength |-> l, rdata |-> d] :
        n \in {<< <<109>> >>, << <<101, 120>>, <<109>> >>},
        l \in RdLengths, d \in Rdatas}

AnswerInit ==
    /\ resolver = None
    /\ source_map = EmptyMap
    /\ orig_messages = EmptyMap
    /\ sent = <<>>
    /\ crashed = FALSE
    /\ hist = <<>>
    /\ buf = <<>>
    /\ received = <<>>
    /\ main_pc = "loop"
    /\ \E a \in AnswerValues :
          pst = [IdleParse EXCEPT !.answers = <<a>>, !.pc = "done"]

\* Answer::to_bytes of the answer at hand, into buf.
EncodeAnswer ==
    /\ buf = <<>>
    /\ buf' = Answer_to_bytes(pst.answers[1])
    /\ UNCHANGED <<resolver, source_map, orig_messages, sent, crashed, hist,
                   received, main_pc, pst>>

AnswerNext == EncodeAnswer

AnswerSpec == AnswerInit /\ [][AnswerNext]_vars

(***************************************************************************)
(* C14.  In the bytes Answer::to_bytes writes, the 16-bit length field     *)
(* (after the name, its terminator, type, class and ttl) equals the number *)
(* of bytes that follow it, and those bytes are the rdata of the answer,   *)
(* whatever the stored rdlength.                                           *)
(***************************************************************************)
RdlengthAt(a) == Len(Concat(MapSeq(label_to_bytes, a.name))) + 1 + 2 + 2 + 4 + 1

C14_RdlengthRecomputed ==
    (buf # <<>>) =>
        LET a  == pst.answers[1]
            at == RdlengthAt(a)
        IN  /\ Len(buf) >= at + 1
            /\ WireU16(buf, at) = Len(buf) - (at + 1)
            /\ SubSeq(buf, at + 2, Len(buf)) = a.rdata

(***************************************************************************)
(* C15 (compression table).  When a message has been decoded, the table    *)
(* label_offsets maps the offset of every label of a decoded name, and of  *)
(* the pointer that ends it, to the dotted suffix of the name that starts  *)
(* there and runs to the end of the name, the labels the pointer stands    *)
(* for included.  Stated of the first name of a message without pointers   *)
(* and of both names of the two-question messages with a pointer.          *)
(***************************************************************************)
TableHas(off, suffix) ==
    /\ off \in DOMAIN pst.label_offsets
    /\ pst.label_offsets[off] = join(suffix)

FirstNameOf(m) ==
    IF m.questions # <<>> THEN m.questions[1].name ELSE m.answers[1].name

SuffixesRecorded(name) ==
    \A j \in 1..Len(name) :
        TableHas(LabelOffset(name, j), SubSeq(name, j, Len(name)))

PlainNamesRecorded ==
    pst.pc = "done" =>
        \A m \in EncodedFrom(pst.bites) : SuffixesRecorded(FirstNameOf(m))

PointerOnlyRecorded ==
    pst.pc = "done" =>
        \A p \in PairsOf(pst.bites) :
            /\ SuffixesRecorded(p.name)
            /\ TableHas(SecondAt(p.name), Suffix(p))

LabelThenPointerRecorded ==
    pst.pc = "done" =>
        \A p \in PrefixedPairsOf(pst.bites) :
            /\ SuffixesRecorded(p.name)
            /\ TableHas(SecondAt(p.name), << <<109>> >> \o Suffix(p))
            /\ TableHas(SecondAt(p.name) + 2, Suffix(p))

C15_TableHoldsSuffixes ==
    /\ PlainNamesRecorded
    /\ PointerOnlyRecorded
    /\ LabelThenPointerRecorded

(***************************************************************************)
(* C16 (id collision).  A client query with id T that arrives while an     *)
(* entry for T is outstanding takes the entry over: when the call returns  *)
(* both maps hold, under T, what this query alone would have put there     *)
(* (its question count, its sender, its message with no answers); the      *)
(* query that held the entry before has had no response; and the replies   *)
(* with id T that follow are counted for this query: the N-th of them      *)
(* sends one response, to this query's sender, with this query's questions *)
(* and the answers of those N replies only.                                *)
(***************************************************************************)
Collides(j) ==
    /\ IsQuery(hist[j])
    /\ IdOf(hist[j]) \in hist[j].had

\* The query that inserted the entry a colliding query finds.
Holder(j) ==
    CHOOSE i \in 1..(j - 1) :
        /\ IsQuery(hist[i])
        /\ IdOf(hist[i]) = IdOf(hist[j])
        /\ \A k \in (i + 1)..(j - 1) :
              ~(IsQuery(hist[k]) /\ IdOf(hist[k]) = IdOf(hist[j]))

C16_Collision ==
    \A j \in 1..Len(hist) :
        Collides(j) =>
            LET e  == hist[j]
                T  == IdOf(e)
                N  == Len(e.m.questions)
                R  == CycleReplies(j)
                cr == CycleResponses(j)
            IN  /\ (j = Len(hist)) =>
                      /\ T \in DOMAIN source_map
                      /\ source_map[T] = [cnt |-> N, addr |-> e.source]
                      /\ T \in DOMAIN orig_messages
                      /\ orig_messages[T] = [e.m EXCEPT !.answers = <<>>]
                /\ CycleResponses(Holder(j)) = <<>>
                /\ (N >= 1) =>
                      IF Len(R) < N THEN cr = <<>>
                      ELSE /\ Len(cr) = 1
                           /\ cr[1].at = R[N]
                           /\ cr[1].to = e.source
                           /\ WireQd(cr[1]) = N
                           /\ WireAn(cr[1]) = Len(AnswersOf(R, N))
                           /\ WireBody(cr[1]) =
                                 QuestionSection(e.m.questions)
                                    \o AnswerSection(AnswersOf(R, N))

\* The first client asked two questions and one reply had come in when the
\* second client asked one question under the same id; the next reply sent
\* the second client its response, and the first client has had none.
C16_Witness ==
    \E j \in 1..Len(hist) :
        /\ Collides(j)
        /\ hist[j].source = "c2"
        /\ hist[Holder(j)].source = "c1"
        /\ Len(hist[Holder(j)].m.questions) = 2
        /\ \E k \in (Holder(j) + 1)..(j - 1) :
              IsReply(hist[k]) /\ IdOf(hist[k]) = IdOf(hist[j])
        /\ Len(CycleResponses(j)) = 1
        /\ \A k \in 1..Len(sent) : sent[k].to # "c1"

(***************************************************************************)
(* C17.  In the stub reply of DnsServer the question section is the        *)
(* query's question section: the same names, types and classes, on the     *)
(* wire and in the message sent.                                           *)
(***************************************************************************)
C17_QuestionsCopied ==
    \A i \in 1..Len(hist) :
        \A k \in 1..Len(SentAt(i)) :
            LET d  == SentAt(i)[k]
                qs == hist[i].m.questions
            IN  /\ d.msg.questions = qs
                /\ SubSeq(WireBody(d), 1, Len(QuestionSection(qs)))
                      = QuestionSection(qs)

\* The same for the questions of type A and class IN only.
AInQuestionsCopied ==
    \A i \in 1..Len(hist) :
        (\A n \in 1..Len(hist[i].m.questions) :
            /\ hist[i].m.questions[n].tipe = "A"
            /\ hist[i].m.questions[n].class = "IN") =>
        \A k \in 1..Len(SentAt(i)) :
            LET d  == SentAt(i)[k]
                qs == hist[i].m.questions
            IN  /\ d.msg.questions = qs
                /\ SubSeq(WireBody(d), 1, Len(QuestionSection(qs)))
                      = QuestionSection(qs)

(***************************************************************************)
(* C18 (isolation).  A call of process for an upstream reply with id T     *)
(* leaves the entries of every other id, in both maps, as they were; and   *)
(* every response sent to a client went to the sender of the last query    *)
(* with the response's id and carries the answers of the replies with that *)
(* id that came after that query, in the order they came, and no others.   *)
(***************************************************************************)
SameEntry(map1, map2, U) ==
    /\ (U \in DOMAIN map1) <=> (U \in DOMAIN map2)
    /\ (U \in DOMAIN map1) => map1[U] = map2[U]

OthersUntouched ==
    (hist' # hist /\ IsReply(hist'[Len(hist')])) =>
        \A U \in Ids \ {IdOf(hist'[Len(hist')])} :
            /\ SameEntry(source_map, source_map', U)
            /\ SameEntry(orig_messages, orig_messages', U)

\* The last client query with id T before call i (0 if there is none).
LastQuery(T, i) ==
    LET qs == {q \in 1..(i - 1) : IsQuery(hist[q]) /\ IdOf(hist[q]) = T}
    IN  IF qs = {} THEN 0 ELSE CHOOSE q \in qs : \A r \in qs : r <= q

ResponsesOwn ==
    \A k \in 1..Len(sent) :
        (sent[k].to # Upstream) =>
            LET d == sent[k]
                T == WireId(d)
                q == LastQuery(T, d.at)
                R == Ascending({j \in (q + 1)..d.at :
                                   IsReply(hist[j]) /\ IdOf(hist[j]) = T})
            IN  /\ q > 0
                /\ d.to = hist[q].source
                /\ d.msg.answers = AnswersOf(R, Len(R))
                /\ WireBody(d) = QuestionSection(hist[q].m.questions)
                                    \o AnswerSection(AnswersOf(R, Len(R)))

C18_Isolation == [][OthersUntouched]_vars /\ []ResponsesOwn

\* Two clients asked under different ids, the first two questions and the
\* second one; the replies came interleaved (id 1, id 2, id 1 or alike) and
\* the second client has its response while the first entry is outstanding
\* with an answer kept.
C18_Witness ==
    /\ \E k \in 1..Len(sent) : sent[k].to = "c2" /\ WireId(sent[k]) = 2
    /\ 1 \in DOMAIN orig_messages
    /\ orig_messages[1].answers # <<>>
    /\ source_map[1].addr = "c1"
    /\ 2 \notin DOMAIN source_map

(***************************************************************************)
(* C19.  Whenever process is not running, source_map and orig_messages     *)
(* have the same keys: an id has a count and a client address exactly when *)
(* it has an original message.                                             *)
(***************************************************************************)
C19_SameKeys == DOMAIN source_map = DOMAIN orig_messages

\* Entries were made under both ids and the one under id 2 was completed
\* and removed; the one under id 1 is in both maps.
C19_Witness ==
    /\ DOMAIN source_map = {1}
    /\ DOMAIN orig_messages = {1}
    /\ \E i \in 1..Len(hist) : IsQuery(hist[i]) /\ IdOf(hist[i]) = 2
    /\ \E k \in 1..Len(sent) : sent[k].to # Upstream /\ WireId(sent[k]) = 2

(***************************************************************************)
(* C20.  Every entry of source_map holds a count of at least 1 and at most *)
(* the number of questions of the query that made the entry, namely that   *)
(* number less the replies with the entry's id processed since; and no     *)
(* reply has decremented a count of 0 (which panics in a build that checks *)
(* overflow and wraps to 65535 in one that does not).                      *)
(***************************************************************************)
RepliesSince(T, q) ==
    Cardinality({j \in (q + 1)..Len(hist) : IsReply(hist[j]) /\ IdOf(hist[j]) = T})

Underflowed ==
    /\ crashed
    /\ IsReply(hist[Len(hist)])
    /\ IdOf(hist[Len(hist)]) \in hist[Len(hist)].had

C20_CountInRange ==
    /\ ~Underflowed
    /\ \A T \in DOMAIN source_map :
          LET q == LastQuery(T, Len(hist) + 1)
              N == Len(hist[q].m.questions)
          IN  /\ source_map[T].cnt >= 1
              /\ source_map[T].cnt <= N
              /\ source_map[T].cnt = N - RepliesSince(T, q)

====
